---------------------------- MODULE Spec2Model ----------------------------
(***************************************************************************)
(* PhishGuard: the background script's URL scoring (analyzeUrl), the       *)
(* history lookup (checkBrowserHistory), the aggregation                   *)
(* (analyzeUrlWithHistory) and the handlers that invoke them.              *)
(*                                                                         *)
(* Strings are sequences of one-character strings, so that parsing,        *)
(* splitting, substring search and suffix tests are computed character by  *)
(* character as the JavaScript does.  Timestamps are whole seconds (the    *)
(* code's milliseconds divided by 1000).  URLs of the model use the http   *)
(* and https schemes without userinfo, port, query or fragment.            *)
(***************************************************************************)
EXTENDS Integers, Sequences, FiniteSets, Bags, TLC

(***************************************************************************)
(* Bounds of the model.                                                    *)
(***************************************************************************)
\* number of clock advances in a behaviour
MaxTicks == 1
\* analyzeUrlWithHistory invocations that may be suspended at the await
MaxCalls == 1
\* number of pages of example.com in the history of a frequent visitor
ManyVisits == 21
\* the clock (seconds) when the background script starts
StartTime == 8640000

(***************************************************************************)
(* Characters and string helpers (JavaScript String methods).              *)
(***************************************************************************)
Digit == {"0","1","2","3","4","5","6","7","8","9"}
LowerAlpha == {"a","b","c","d","e","f","g","h","i","j","k","l","m","n","o","p","q","r","s","t","u","v","w","x","y","z"}
UpperAlpha == {"A","B","C","D","E","F","G","H","I","J","K","L","M","N","O","P","Q","R","S","T","U","V","W","X","Y","Z"}
AlphaNum == Digit \cup LowerAlpha \cup UpperAlpha

LowerOf == "A" :> "a" @@ "B" :> "b" @@ "C" :> "c" @@ "D" :> "d" @@ "E" :> "e" @@ "F" :> "f" @@ "G" :> "g" @@ "H" :> "h" @@ "I" :> "i" @@ "J" :> "j" @@ "K" :> "k" @@ "L" :> "l" @@ "M" :> "m" @@ "N" :> "n" @@ "O" :> "o" @@ "P" :> "p" @@ "Q" :> "q" @@ "R" :> "r" @@ "S" :> "s" @@ "T" :> "t" @@ "U" :> "u" @@ "V" :> "v" @@ "W" :> "w" @@ "X" :> "x" @@ "Y" :> "y" @@ "Z" :> "z"

DigitVal == "0" :> 0 @@ "1" :> 1 @@ "2" :> 2 @@ "3" :> 3 @@ "4" :> 4 @@ "5" :> 5 @@ "6" :> 6 @@ "7" :> 7 @@ "8" :> 8 @@ "9" :> 9

\* String.prototype.toLowerCase
toLowerCase(s) == [i \in 1..Len(s) |-> IF s[i] \in UpperAlpha THEN LowerOf[s[i]] ELSE s[i]]

SetMin(S) == CHOOSE x \in S : \A y \in S : x <= y

SetMax(S) == CHOOSE x \in S : \A y \in S : x >= y

\* String.prototype.includes
includes(s, t) == \E i \in 0..(Len(s) - Len(t)) : SubSeq(s, i + 1, i + Len(t)) = t

\* String.prototype.endsWith
endsWith(s, t) == Len(t) <= Len(s) /\ SubSeq(s, Len(s) - Len(t) + 1, Len(s)) = t

\* String.prototype.startsWith
startsWith(s, t) == Len(t) <= Len(s) /\ SubSeq(s, 1, Len(t)) = t

\* String.prototype.split(sep) for a one-character separator
RECURSIVE split(_, _)
split(s, sep) ==
  LET at == {i \in 1..Len(s) : s[i] = sep}
  IN IF at = {} THEN <<s>>
     ELSE LET i == SetMin(at)
          IN <<SubSeq(s, 1, i - 1)>> \o split(SubSeq(s, i + 1, Len(s)), sep)

\* the index of the first character of s that is in set cs, Len(s) + 1 if none
FirstIndexIn(s, cs) ==
  LET at == {i \in 1..Len(s) : s[i] \in cs}
  IN IF at = {} THEN Len(s) + 1 ELSE SetMin(at)

\* the number of leading characters of s that are in set cs
LeadingCount(s, cs) ==
  LET at == {i \in 1..Len(s) : s[i] \notin cs}
  IN IF at = {} THEN Len(s) ELSE SetMin(at) - 1

\* the value of a string of decimal digits
RECURSIVE DecimalValue(_)
DecimalValue(s) ==
  IF s = << >> THEN 0
  ELSE 10 * DecimalValue(SubSeq(s, 1, Len(s) - 1)) + DigitVal[s[Len(s)]]

(***************************************************************************)
(* new URL(url): the parse of an absolute http(s) URL.  Fails (the         *)
(* constructor throws) without a scheme, with an empty host, with a        *)
(* forbidden host code point, or with an invalid IPv4 literal.             *)
(***************************************************************************)
ForbiddenHostChar == {" ", "#", "/", ":", "<", ">", "?", "@", "[", "\\", "]", "^", "|", "%"}

IsNumericLabel(l) == l # << >> /\ \A i \in 1..Len(l) : l[i] \in Digit

ValidIPv4(labels) ==
  /\ Len(labels) = 4
  /\ \A i \in 1..4 : /\ IsNumericLabel(labels[i])
                     /\ Len(labels[i]) <= 3
                     /\ DecimalValue(labels[i]) <= 255

ParseFailure == [ok |-> FALSE]

\* the IPv4 parser runs when the last dot-separated part of the host is a number
HostIsValid(host, labels) ==
  /\ host # << >>
  /\ \A i \in 1..Len(host) : host[i] \notin ForbiddenHostChar
  /\ (IsNumericLabel(labels[Len(labels)]) => ValidIPv4(labels))

\* the path ends at the first "?" or "#", at index stop of tail
PathOf(tail, stop) == IF stop = 1 THEN <<"/">> ELSE SubSeq(tail, 1, stop - 1)

\* the host and the path: host is the authority in lower case, tail the rest
ParseHost(host, tail) ==
  IF HostIsValid(host, split(host, "."))
  THEN [ok       |-> TRUE,
        hostname |-> host,
        pathname |-> PathOf(tail, FirstIndexIn(tail, {"?", "#"}))]
  ELSE ParseFailure

\* the authority ends at the first "/", "?" or "#", at index stop of after
SplitAuthority(after, stop) ==
  ParseHost(toLowerCase(SubSeq(after, 1, stop - 1)), SubSeq(after, stop, Len(after)))

ParseAuthority(after) == SplitAuthority(after, FirstIndexIn(after, {"/", "?", "#"}))

\* a special scheme (http, https) is followed by slashes, which are skipped
ParseScheme(scheme, rest) ==
  IF scheme \in {<<"h","t","t","p">>, <<"h","t","t","p","s">>}
  THEN ParseAuthority(SubSeq(rest, LeadingCount(rest, {"/", "\\"}) + 1, Len(rest)))
  ELSE ParseFailure

\* the scheme ends at the first ":", at index colon of url
SplitScheme(url, colon) ==
  IF colon > Len(url) THEN ParseFailure
  ELSE ParseScheme(toLowerCase(SubSeq(url, 1, colon - 1)), SubSeq(url, colon + 1, Len(url)))

ParseURL(url) == SplitScheme(url, FirstIndexIn(url, {":"}))

(***************************************************************************)
(* The signal catalog.                                                     *)
(***************************************************************************)
RISK_THRESHOLDS == [LOW |-> 30, MEDIUM |-> 60, HIGH |-> 80]

SUSPICIOUS_TLDS == <<
  <<"x","y","z">>, <<"t","o","p">>, <<"t","k">>, <<"m","l">>, <<"g","a">>, <<"c","f">>,
  <<"g","q">>, <<"i","n","f","o">>, <<"o","n","l","i","n","e">>, <<"s","i","t","e">>,
  <<"c","l","u","b">>, <<"x","i","n">> >>

\* The regular expressions of SUSPICIOUS_PATTERNS: none carries the g or y flag.
PatternTable(g) == <<
  [source |-> "/secure/", kind |-> "literal", text |-> <<"s","e","c","u","r","e">>, global |-> g],
  [source |-> "/login/", kind |-> "literal", text |-> <<"l","o","g","i","n">>, global |-> g],
  [source |-> "/signin/", kind |-> "literal", text |-> <<"s","i","g","n","i","n">>, global |-> g],
  [source |-> "/verify/", kind |-> "literal", text |-> <<"v","e","r","i","f","y">>, global |-> g],
  [source |-> "/account/", kind |-> "literal", text |-> <<"a","c","c","o","u","n","t">>, global |-> g],
  [source |-> "/update/", kind |-> "literal", text |-> <<"u","p","d","a","t","e">>, global |-> g],
  [source |-> "/confirm/", kind |-> "literal", text |-> <<"c","o","n","f","i","r","m">>, global |-> g],
  [source |-> "/banking/", kind |-> "literal", text |-> <<"b","a","n","k","i","n","g">>, global |-> g],
  [source |-> "/paypal/", kind |-> "literal", text |-> <<"p","a","y","p","a","l">>, global |-> g],
  [source |-> "/apple/", kind |-> "literal", text |-> <<"a","p","p","l","e">>, global |-> g],
  [source |-> "/microsoft/", kind |-> "literal", text |-> <<"m","i","c","r","o","s","o","f","t">>, global |-> g],
  [source |-> "/google/", kind |-> "literal", text |-> <<"g","o","o","g","l","e">>, global |-> g],
  [source |-> "/facebook/", kind |-> "literal", text |-> <<"f","a","c","e","b","o","o","k">>, global |-> g],
  [source |-> "/amazon/", kind |-> "literal", text |-> <<"a","m","a","z","o","n">>, global |-> g],
  [source |-> "/netflix/", kind |-> "literal", text |-> <<"n","e","t","f","l","i","x">>, global |-> g],
  [source |-> "/\\d{5,}/", kind |-> "digits", min |-> 5, global |-> g],
  [source |-> "/^[a-zA-Z0-9]{25,}$/", kind |-> "alnumOnly", min |-> 25, global |-> g] >>

\* the bug the code avoids: the patterns written with the g flag
SUSPICIOUS_PATTERNS_global == PatternTable(TRUE)

SUSPICIOUS_PATTERNS == PatternTable(FALSE)

SECURITY_TERMS == <<
  <<"s","e","c","u","r","e">>, <<"s","e","c","u","r","i","t","y">>,
  <<"a","u","t","h","e","n","t","i","c","a","t","e">>,
  <<"v","e","r","i","f","i","c","a","t","i","o","n">>,
  <<"c","o","n","f","i","r","m">>, <<"v","a","l","i","d","a","t","e">>,
  <<"w","a","l","l","e","t">> >>

\* Array.prototype.includes
ArrayIncludes(arr, x) == \E i \in 1..Len(arr) : arr[i] = x

(***************************************************************************)
(* RegExp.prototype.test.  ExecEnd is the matcher: the end index of the    *)
(* leftmost match of pattern p in s that starts at index from or later     *)
(* (indices count from 0, as in JavaScript), -1 when there is none.        *)
(* RegExpTest is RegExpBuiltinExec's handling of the lastIndex property:   *)
(* only a global pattern reads and writes it.                              *)
(***************************************************************************)
ExecEnd(p, s, from) ==
  CASE p.kind = "literal" ->
         LET at == {i \in from..(Len(s) - Len(p.text)) :
                      SubSeq(s, i + 1, i + Len(p.text)) = p.text}
         IN IF at = {} THEN -1 ELSE SetMin(at) + Len(p.text)
    [] p.kind = "digits" ->
         LET at == {i \in from..(Len(s) - p.min) :
                      \A k \in 1..p.min : s[i + k] \in Digit}
         IN IF at = {} THEN -1
            ELSE LET i == SetMin(at)
                 IN i + LeadingCount(SubSeq(s, i + 1, Len(s)), Digit)
    [] p.kind = "alnumOnly" ->
         IF from = 0 /\ Len(s) >= p.min /\ \A i \in 1..Len(s) : s[i] \in AlphaNum
         THEN Len(s) ELSE -1

RegExpTest(p, lastIndex, s) ==
  LET from == IF p.global THEN lastIndex ELSE 0
      e    == IF from > Len(s) THEN -1 ELSE ExecEnd(p, s, from)
  IN [found     |-> e # -1,
      lastIndex |-> IF p.global THEN (IF e = -1 THEN 0 ELSE e) ELSE lastIndex]

\* the lastIndex property of every pattern object when the script is loaded
FreshLastIndex == [i \in 1..Len(SUSPICIOUS_PATTERNS) |-> 0]

(***************************************************************************)
(* The score-to-level mapping at the end of analyzeUrl.                    *)
(***************************************************************************)
RiskLevelOf(score) ==
  IF score >= RISK_THRESHOLDS.HIGH THEN "HIGH"
  ELSE IF score >= RISK_THRESHOLDS.MEDIUM THEN "MEDIUM"
  ELSE IF score >= RISK_THRESHOLDS.LOW THEN "LOW"
  ELSE "SAFE"

(***************************************************************************)
(* analyzeUrl(url).  Every check contributes its points and its issue to   *)
(* the running score and issue list, in the order of the code; regs is the *)
(* lastIndex of the pattern objects, which the call reads and returns      *)
(* beside its result.                                                      *)
(***************************************************************************)
Nil == [score |-> 0, issues |-> << >>]

\* if (cond) { score += points; issues.push(issue); }
Check(cond, points, issue) ==
  IF cond THEN [score |-> points, issues |-> <<issue>>] ELSE Nil

\* the contributions of consecutive checks
Then(a, b) == [score |-> a.score + b.score, issues |-> a.issues \o b.issues]

\* pattern.test(domain) || pattern.test(path): path is tested only after domain
\* failed; onDomain is the outcome of pattern.test(domain)
OrTestPath(p, onDomain, path) ==
  IF onDomain.found THEN onDomain ELSE RegExpTest(p, onDomain.lastIndex, path)

TestEither(p, li, domain, path) == OrTestPath(p, RegExpTest(p, li, domain), path)

\* the body of the forEach callback for pattern i, whose test gave hit
PatternCheck(i, hit, acc, regs) ==
  [acc  |-> Then(acc, Check(hit.found, 10,
                   <<"Suspicious pattern detected: ", SUSPICIOUS_PATTERNS[i].source>>)),
   regs |-> [regs EXCEPT ![i] = hit.lastIndex]]

\* SUSPICIOUS_PATTERNS.forEach, from pattern i on; st is [acc, regs]
RECURSIVE TestPatterns(_, _, _, _)
TestPatterns(i, domain, path, st) ==
  IF i > Len(SUSPICIOUS_PATTERNS) THEN st
  ELSE TestPatterns(i + 1, domain, path,
         PatternCheck(i, TestEither(SUSPICIOUS_PATTERNS[i], st.regs[i], domain, path),
                      st.acc, st.regs))

\* the term loop skipping a term that a pattern of the same text already reported
RECURSIVE TestTerms_deduplicated(_, _, _)
TestTerms_deduplicated(i, domain, acc) ==
  IF i > Len(SECURITY_TERMS) THEN acc
  ELSE TestTerms_deduplicated(i + 1, domain,
         Then(acc, Check(/\ includes(domain, SECURITY_TERMS[i])
                         /\ \A k \in 1..Len(SUSPICIOUS_PATTERNS) :
                              SUSPICIOUS_PATTERNS[k].kind = "literal" =>
                                SUSPICIOUS_PATTERNS[k].text # SECURITY_TERMS[i],
                         5, <<"Security term in domain: ", SECURITY_TERMS[i]>>)))

\* SECURITY_TERMS.forEach, from term i on
RECURSIVE TestTerms(_, _, _)
TestTerms(i, domain, acc) ==
  IF i > Len(SECURITY_TERMS) THEN acc
  ELSE TestTerms(i + 1, domain,
         Then(acc, Check(includes(domain, SECURITY_TERMS[i]), 5,
                         <<"Security term in domain: ", SECURITY_TERMS[i]>>)))

\* /^\d{1,3}\.\d{1,3}\.\d{1,3}\.\d{1,3}$/ on the dot-separated parts of the host
IsDottedQuad(labels) ==
  /\ Len(labels) = 4
  /\ \A i \in 1..4 : IsNumericLabel(labels[i]) /\ Len(labels[i]) <= 3

\* (domain.match(/-/g) || []).length
HyphenCount(domain) == Cardinality({i \in 1..Len(domain) : domain[i] = "-"})

\* the TLD check; tld is domain.split('.').pop().toLowerCase()
TldCheck(tld) ==
  Check(ArrayIncludes(SUSPICIOUS_TLDS, tld), 15, <<"Suspicious TLD: .", tld>>)

\* the checks on the host written as one if / else-if chain
HostChecks_elseIf(domain, labels) ==
  IF IsDottedQuad(labels)
  THEN Check(TRUE, 40, <<"IP address used as hostname">>)
  ELSE IF ArrayIncludes(SUSPICIOUS_TLDS, toLowerCase(labels[Len(labels)]))
  THEN TldCheck(toLowerCase(labels[Len(labels)]))
  ELSE IF Len(domain) > 30
  THEN Check(TRUE, 15, <<"Unusually long domain name">>)
  ELSE IF Len(labels) - 2 > 3
  THEN Check(TRUE, 15, <<"Excessive number of subdomains">>)
  ELSE Check(HyphenCount(domain) > 1, 10, <<"Multiple hyphens in domain">>)

\* the checks on the host, before the pattern loop; labels is domain.split('.')
HostChecks(domain, labels) ==
  Then(Check(IsDottedQuad(labels), 40, <<"IP address used as hostname">>),
  Then(TldCheck(toLowerCase(labels[Len(labels)])),
  Then(Check(Len(domain) > 30, 15, <<"Unusually long domain name">>),
  Then(Check(Len(labels) - 2 > 3, 15, <<"Excessive number of subdomains">>),
       Check(HyphenCount(domain) > 1, 10, <<"Multiple hyphens in domain">>)))))

\* the encoded-characters check assigning the score (score = 10) instead of adding to it
TermChecks_assigned(url, domain, pat) ==
  [acc  |-> IF includes(url, <<"%">>)
            THEN [score  |-> 10,
                  issues |-> TestTerms(1, domain, pat.acc).issues
                               \o << <<"URL contains encoded characters">> >>]
            ELSE TestTerms(1, domain, pat.acc),
   regs |-> pat.regs]

\* the checks after the pattern loop; pat is what the loop left
TermChecks(url, domain, pat) ==
  [acc  |-> Then(TestTerms(1, domain, pat.acc),
                 Check(includes(url, <<"%">>), 10, <<"URL contains encoded characters">>)),
   regs |-> pat.regs]

\* the try block once new URL(url) has succeeded
ScoreUrl(url, domain, path, regs) ==
  TermChecks(url, domain,
    TestPatterns(1, domain, path,
      [acc |-> HostChecks(domain, split(domain, ".")), regs |-> regs]))

\* score += 20 in the catch block
MalformedScore == 20

\* the catch block swallowing the error without scoring it
MalformedUrl_swallowed(regs) == [acc |-> Nil, regs |-> regs]

\* the catch block: new URL(url) threw before anything was added
MalformedUrl(regs) ==
  [acc |-> Check(TRUE, MalformedScore, <<"Malformed URL">>), regs |-> regs]

\* the score-to-level mapping and the returned object
Scored(s) ==
  [score |-> s.acc.score, issues |-> s.acc.issues,
   riskLevel |-> RiskLevelOf(s.acc.score), regs |-> s.regs]

\* the try statement; urlObj is the outcome of new URL(url)
TryScore(url, urlObj, regs) ==
  IF urlObj.ok THEN ScoreUrl(url, urlObj.hostname, urlObj.pathname, regs)
  ELSE MalformedUrl(regs)

analyzeUrl(url, regs) == Scored(TryScore(url, ParseURL(url), regs))

(***************************************************************************)
(* The URLs of the model.                                                  *)
(***************************************************************************)
u_malformed == <<"n","o","t"," ","a"," ","u","r","l">>
u_ip == <<"h","t","t","p",":","/","/","1","9","2",".","1","6","8",".","1",".","1","/","l","o","g","i","n">>
u_example == <<"h","t","t","p","s",":","/","/","e","x","a","m","p","l","e",".","c","o","m","/">>
u_paypal == <<"h","t","t","p",":","/","/","p","a","y","p","a","l","-","s","e","c","u","r","e","-","l","o","g","i","n",".","x","y","z","/">>
u_sub == <<"h","t","t","p","s",":","/","/","a",".","e","x","a","m","p","l","e",".","c","o","m","/">>
u_high == <<"h","t","t","p",":","/","/","s","e","c","u","r","e","-","a","c","c","o","u","n","t","-","v","e","r","i","f","y",".","t","k","/","l","o","g","i","n","%","4","1">>
u_badip == <<"h","t","t","p",":","/","/","9","9","9",".","1",".","1",".","1","/">>
h_notexample == <<"h","t","t","p","s",":","/","/","n","o","t","e","x","a","m","p","l","e",".","c","o","m","/">>
h_phishing == <<"h","t","t","p","s",":","/","/","e","x","a","m","p","l","e",".","c","o","m",".","p","h","i","s","h","i","n","g",".","c","o","m","/">>
h_www == <<"H","T","T","P","S",":","/","/","W","W","W",".","E","x","a","m","p","l","e",".","C","O","M","/","x">>
h_bad == <<":",":","b","a","d">>
h_page == <<"h","t","t","p","s",":","/","/","e","x","a","m","p","l","e",".","c","o","m","/","p">>

\* the URLs a tab navigates to and the popup asks about
Urls == {u_malformed, u_badip, u_ip, u_example, u_paypal, u_sub, u_high}

(***************************************************************************)
(* The browser's history store, read through chrome.history.search.        *)
(***************************************************************************)
\* 24 * 60 * 60 * 1000 milliseconds
Day == 24 * 60 * 60

DigitChar == <<"0","1","2","3","4","5","6","7","8","9">>

\* Number to decimal string
RECURSIVE NumberToString(_)
NumberToString(n) ==
  IF n < 10 THEN <<DigitChar[n + 1]>>
  ELSE NumberToString(n \div 10) \o <<DigitChar[(n % 10) + 1]>>

HistoryItem(url, t) == [url |-> url, lastVisitTime |-> t]

\* a few visits of several sites, one item with a URL that does not parse
HistoryMixed == <<
  HistoryItem(h_www, StartTime - 5),
  HistoryItem(h_bad, StartTime - 10),
  HistoryItem(h_notexample, StartTime - Day),
  HistoryItem(u_paypal, StartTime - Day + 2),
  HistoryItem(h_phishing, StartTime - 2 * Day),
  HistoryItem(u_example, StartTime - 3 * Day),
  HistoryItem(u_high, StartTime - 45 * Day),
  HistoryItem(u_sub, StartTime - 90 * Day),
  HistoryItem(h_page, StartTime - 91 * Day) >>

\* many recently visited pages of example.com
HistoryFrequent ==
  [i \in 1..ManyVisits |-> HistoryItem(h_page \o NumberToString(i), StartTime - 5 - i)]
  \o << HistoryItem(u_high, StartTime - 2 * Day),
        HistoryItem(u_paypal, StartTime - 20 * Day) >>

Histories == {HistoryMixed, HistoryFrequent}

\* const historyQuery = {...}
HistoryQuery(domain, t) ==
  [text       |-> domain,
   startTime  |-> t - 90 * Day,
   endTime    |-> t - 5,
   maxResults |-> 1000]

\* chrome.history.search(query): the items last visited in the query's window
\* whose URL contains the text; byTitle: the text matched the remaining items
\* by their titles.
SearchHistory(hist, query, byTitle) ==
  LET found == SelectSeq(hist, LAMBDA item :
                 /\ item.lastVisitTime >= query.startTime
                 /\ item.lastVisitTime <= query.endTime
                 /\ (byTitle \/ includes(toLowerCase(item.url), toLowerCase(query.text))))
  IN SubSeq(found, 1, IF Len(found) < query.maxResults THEN Len(found) ELSE query.maxResults)

(***************************************************************************)
(* checkBrowserHistory(url), from the filter on.                           *)
(***************************************************************************)
\* what a try block gives: a value, or an exception thrown
Thrown == [threw |-> TRUE]

Value(v) == [threw |-> FALSE, value |-> v]

\* the match made by raw substring, without the dot
TryIsMatch_substring(parsed, domain) ==
  IF ~parsed.ok THEN Thrown
  ELSE Value(\/ parsed.hostname = domain
             \/ endsWith(parsed.hostname, domain)
             \/ endsWith(domain, parsed.hostname))

\* the try block of the filter callback; parsed is the outcome of new URL(item.url)
TryIsMatch(parsed, domain) ==
  IF ~parsed.ok THEN Thrown
  ELSE Value(\/ parsed.hostname = domain
             \/ endsWith(parsed.hostname, <<".">> \o domain)
             \/ endsWith(domain, <<".">> \o parsed.hostname))

\* catch { return false; }
CatchItem(outcome) == IF outcome.threw THEN FALSE ELSE outcome.value

\* the filter callback: a history item of the analysed domain
IsDomainMatch(item, domain) == CatchItem(TryIsMatch(ParseURL(item.url), domain))

\* Math.max(...visits)
\* the oldest visit taken for the most recent one
MathMax_oldest(visits) == SetMin({visits[i] : i \in 1..Len(visits)})

MathMax(visits) == SetMax({visits[i] : i \in 1..Len(visits)})

NoMatchSnapshot ==
  [familiar |-> FALSE, firstVisit |-> TRUE, visitCount |-> 0,
   daysSinceLastVisit |-> 0, familiarityScore |-> 0]

\* the catch block of checkBrowserHistory
ErrorSnapshot ==
  [familiar |-> FALSE, firstVisit |-> TRUE, visitCount |-> 0, error |-> TRUE]

\* const recencyScore = ...
RecencyScore(daysSinceLastVisit) ==
  IF daysSinceLastVisit = 0 THEN 60
  ELSE IF 60 - daysSinceLastVisit * 2 > 0 THEN 60 - daysSinceLastVisit * 2 ELSE 0

\* the visit count used without its cap
CappedVisitCount_uncapped(n) == n

\* const visitCount = Math.min(exactDomainMatches.length, 20)
CappedVisitCount(n) == IF n < 20 THEN n ELSE 20

\* the snapshot of a domain with matches, the most recent one days old
FamiliarSnapshot(matches, days) ==
  [familiar |-> TRUE, firstVisit |-> FALSE,
   visitCount |-> matches,
   daysSinceLastVisit |-> days,
   familiarityScore |-> CappedVisitCount(matches) * 2 + RecencyScore(days)]

\* the snapshot made of the filtered items when the clock reads t
SnapshotOf(exactDomainMatches, t) ==
  IF Len(exactDomainMatches) = 0 THEN NoMatchSnapshot
  ELSE FamiliarSnapshot(Len(exactDomainMatches),
         (t - MathMax([i \in 1..Len(exactDomainMatches) |->
                         exactDomainMatches[i].lastVisitTime])) \div Day)

\* the try block of checkBrowserHistory after the search has resolved
FamiliarityOf(domain, historyItems, t) ==
  SnapshotOf(SelectSeq(historyItems, LAMBDA item : IsDomainMatch(item, domain)), t)

\* checkBrowserHistory without its catch block
CatchLookup_missing(outcome) == outcome

\* catch (error) { return {familiar: false, firstVisit: true, visitCount: 0, error: true}; }
CatchLookup(outcome) == IF outcome.threw THEN Value(ErrorSnapshot) ELSE outcome

(***************************************************************************)
(* analyzeUrlWithHistory(url), from the await on.                          *)
(***************************************************************************)
\* adjustedScore += 90
FirstVisitPenalty == 90

\* the first-visit penalty capped at 100
AdjustedScore_capped(score, familiarity) ==
  IF familiarity.firstVisit
  THEN (IF score + FirstVisitPenalty < 100 THEN score + FirstVisitPenalty ELSE 100)
  ELSE LET reduction == familiarity.familiarityScore \div 4
       IN IF score - reduction > 0 THEN score - reduction ELSE 0

\* the reduction applied without Math.max(..., 0)
AdjustedScore_unclamped(score, familiarity) ==
  IF familiarity.firstVisit THEN score + FirstVisitPenalty
  ELSE score - familiarity.familiarityScore \div 4

\* the first visit raising the score only slightly
AdjustedScore_slight(score, familiarity) ==
  IF familiarity.firstVisit THEN score + 10
  ELSE LET reduction == familiarity.familiarityScore \div 4
       IN IF score - reduction > 0 THEN score - reduction ELSE 0

\* the score adjusted by the visit history
AdjustedScore(score, familiarity) ==
  IF familiarity.firstVisit THEN score + FirstVisitPenalty
  ELSE LET reduction == familiarity.familiarityScore \div 4
       IN IF score - reduction > 0 THEN score - reduction ELSE 0

\* the first-visit branch adjusting the score without reporting an issue
AdjustedIssues_silent(issues, familiarity) ==
  IF ~familiarity.firstVisit /\ familiarity.familiarityScore > 70
  THEN Append(issues, <<"Frequently visited site (", NumberToString(familiarity.visitCount), " visits)">>)
  ELSE issues

\* baseAnalysis.issues after the push, if any
AdjustedIssues(issues, familiarity) ==
  IF familiarity.firstVisit THEN Append(issues, <<"First visit to this domain">>)
  ELSE IF familiarity.familiarityScore > 70
       THEN Append(issues, <<"Frequently visited site (", NumberToString(familiarity.visitCount), " visits)">>)
       ELSE issues

\* the second copy with the HIGH threshold exclusive
AdjustedRiskLevel_exclusive(adjustedScore) ==
  IF adjustedScore > RISK_THRESHOLDS.HIGH THEN "HIGH"
  ELSE IF adjustedScore >= RISK_THRESHOLDS.MEDIUM THEN "MEDIUM"
  ELSE IF adjustedScore >= RISK_THRESHOLDS.LOW THEN "LOW"
  ELSE "SAFE"

\* the second copy of the score-to-level mapping
AdjustedRiskLevel(adjustedScore) ==
  IF adjustedScore >= RISK_THRESHOLDS.HIGH THEN "HIGH"
  ELSE IF adjustedScore >= RISK_THRESHOLDS.MEDIUM THEN "MEDIUM"
  ELSE IF adjustedScore >= RISK_THRESHOLDS.LOW THEN "LOW"
  ELSE "SAFE"

\* the result without the riskLevel override: the level of the base score stays
Assessment_stale(baseAnalysis, familiarity) ==
  [score       |-> AdjustedScore(baseAnalysis.score, familiarity),
   familiarity |-> familiarity]
  @@ [baseAnalysis EXCEPT !.issues = AdjustedIssues(baseAnalysis.issues, familiarity)]

\* const result = {...baseAnalysis, score: adjustedScore, riskLevel, familiarity}
Assessment(baseAnalysis, familiarity) ==
  LET adjustedScore == AdjustedScore(baseAnalysis.score, familiarity)
      pushed == [baseAnalysis EXCEPT !.issues = AdjustedIssues(baseAnalysis.issues, familiarity)]
  IN [score       |-> adjustedScore,
      riskLevel   |-> AdjustedRiskLevel(adjustedScore),
      familiarity |-> familiarity] @@ pushed

(***************************************************************************)
(* The content script: the scan of the page's forms, text and images.      *)
(***************************************************************************)
SENSITIVE_FORM_FIELDS == <<
  <<"p","a","s","s","w","o","r","d">>,
  <<"p","a","s","s">>,
  <<"p","w","d">>,
  <<"s","s","n">>,
  <<"c","r","e","d","i","t">>,
  <<"c","a","r","d">>,
  <<"c","v","v">>,
  <<"p","i","n">>,
  <<"s","o","c","i","a","l">> >>

urgencyPhrases == <<
  <<"a","c","t"," ","n","o","w">>,
  <<"u","r","g","e","n","t">>,
  <<"i","m","m","e","d","i","a","t","e","l","y">>,
  <<"a","l","e","r","t">>,
  <<"a","t","t","e","n","t","i","o","n">>,
  <<"i","m","p","o","r","t","a","n","t">>,
  <<"l","i","m","i","t","e","d"," ","t","i","m","e">>,
  <<"e","x","p","i","r","e">>,
  <<"s","u","s","p","e","n","d","e","d">>,
  <<"v","e","r","i","f","y"," ","n","o","w">>,
  <<"v","e","r","i","f","y"," ","y","o","u","r"," ","a","c","c","o","u","n","t">>,
  <<"u","n","u","s","u","a","l"," ","a","c","t","i","v","i","t","y">>,
  <<"s","u","s","p","i","c","i","o","u","s"," ","a","c","t","i","v","i","t","y">>,
  <<"s","e","c","u","r","i","t","y"," ","a","l","e","r","t">> >>

commonBrands == <<
  <<"p","a","y","p","a","l">>,
  <<"a","p","p","l","e">>,
  <<"m","i","c","r","o","s","o","f","t">>,
  <<"g","o","o","g","l","e">>,
  <<"f","a","c","e","b","o","o","k">>,
  <<"a","m","a","z","o","n">>,
  <<"b","a","n","k"," ","o","f"," ","a","m","e","r","i","c","a">>,
  <<"c","h","a","s","e">>,
  <<"w","e","l","l","s"," ","f","a","r","g","o">>,
  <<"c","i","t","i">>,
  <<"n","e","t","f","l","i","x">> >>

\* String.prototype.replace with a string pattern: the first occurrence only
ReplaceFirst(s, pattern, replacement) ==
  LET at == {i \in 0..(Len(s) - Len(pattern)) : SubSeq(s, i + 1, i + Len(pattern)) = pattern}
  IN IF at = {} THEN s
     ELSE SubSeq(s, 1, SetMin(at)) \o replacement
            \o SubSeq(s, SetMin(at) + Len(pattern) + 1, Len(s))

\* Array.prototype.join
RECURSIVE Join(_, _)
Join(list, sep) ==
  IF list = << >> THEN << >>
  ELSE IF Len(list) = 1 THEN list[1]
  ELSE list[1] \o sep \o Join(Tail(list), sep)

\* the elements of every sequence of a sequence, in order
RECURSIVE Flatten(_)
Flatten(lists) == IF lists = << >> THEN << >> ELSE lists[1] \o Flatten(Tail(lists))

\* the issue pushed for one form: its action is another host, or does not parse
FormActionIssues(action, pageDomain) ==
  IF action = << >> THEN << >>
  ELSE IF ~ParseURL(action).ok THEN << <<"Form has invalid submission URL">> >>
  ELSE IF ParseURL(action).hostname # pageDomain
       THEN << <<"Form submits to different domain: ", ParseURL(action).hostname>> >>
       ELSE << >>

\* an input whose name or id contains a sensitive term
IsSensitiveInput(input) ==
  \E i \in 1..Len(SENSITIVE_FORM_FIELDS) :
    \/ includes(toLowerCase(input.name), SENSITIVE_FORM_FIELDS[i])
    \/ includes(toLowerCase(input.id), SENSITIVE_FORM_FIELDS[i])

\* every input of every form of the page
AllInputs(forms) == Flatten([i \in 1..Len(forms) |-> forms[i].inputs])

\* the action of the last form that has one, null without such a form
SubmitURL(forms) ==
  LET withAction == {i \in 1..Len(forms) : forms[i].action # << >>}
  IN IF withAction = {} THEN <<"null">> ELSE forms[SetMax(withAction)].action

\* the result object once the forms are scanned
FormResults(forms, inputs, href, pageDomain) ==
  LET hasPasswordField == \E i \in 1..Len(inputs) : toLowerCase(inputs[i].type) = <<"p","a","s","s","w","o","r","d">>
      isSecure == startsWith(href, <<"h","t","t","p","s",":">>)
  IN [hasPasswordField   |-> hasPasswordField,
      hasSensitiveFields |-> \E i \in 1..Len(inputs) : IsSensitiveInput(inputs[i]),
      submitURL          |-> SubmitURL(forms),
      isSecure           |-> isSecure,
      issues             |->
        Flatten([i \in 1..Len(forms) |-> FormActionIssues(forms[i].action, pageDomain)])
          \o (IF hasPasswordField /\ ~isSecure
              THEN << <<"Password field on non-HTTPS connection">> >> ELSE << >>)]

scanForSensitiveFormFields(page) ==
  FormResults(page.forms, AllInputs(page.forms), page.href, ParseURL(page.href).hostname)

\* the urgency phrases found in the lower-cased page text
UrgencyFound(pageText) == SelectSeq(urgencyPhrases, LAMBDA phrase : includes(pageText, phrase))

\* the brands pushed for one image
BrandsOfImage(altText, src) ==
  SelectSeq(commonBrands, LAMBDA brand : includes(altText, brand) \/ includes(src, brand))

\* brandLogosFound after images.forEach
BrandLogosFound(images) ==
  Flatten([i \in 1..Len(images) |->
             BrandsOfImage(toLowerCase(images[i].alt), toLowerCase(images[i].src))])

\* brandInDomain after brandLogosFound.forEach
BrandInDomain(brandLogosFound, domain) ==
  \E i \in 1..Len(brandLogosFound) :
    includes(domain, ReplaceFirst(brandLogosFound[i], <<" ">>, << >>))

\* the result object of analyzePageContent
ContentResults(urgency, brandLogosFound, domain) ==
  LET impersonation == brandLogosFound # << >> /\ ~BrandInDomain(brandLogosFound, domain)
  IN [suspiciousText      |-> FALSE,
      brandImpersonation  |-> impersonation,
      poorSpellingGrammar |-> FALSE,
      urgencyLanguage     |-> urgency # << >>,
      issues              |->
        [i \in 1..Len(urgency) |-> <<"Urgency language: ", urgency[i]>>]
          \o (IF impersonation
              THEN << <<"Potential impersonation of: ", Join(brandLogosFound, <<",", " ">>)>> >>
              ELSE << >>)]

analyzePageContent(page) ==
  ContentResults(UrgencyFound(toLowerCase(page.text)), BrandLogosFound(page.images),
                 toLowerCase(ParseURL(page.href).hostname))

\* the contentAnalysis message runAnalysis sends to the background script
ContentAnalysisMessage(page) ==
  [action |-> "contentAnalysis",
   url    |-> page.href,
   data   |-> [form |-> scanForSensitiveFormFields(page), content |-> analyzePageContent(page)]]

(***************************************************************************)
(* Pages for the content script.                                           *)
(***************************************************************************)
\* the largest number of images of a page
MaxImages == 2

page_bank == <<"h","t","t","p","s",":","/","/","w","w","w",".","b","a","n","k","o","f","a","m","e","r","i","c","a",".","c","o","m","/">>
page_wells == <<"h","t","t","p","s",":","/","/","w","w","w",".","w","e","l","l","s","f","a","r","g","o",".","c","o","m","/">>
page_paypal == <<"h","t","t","p",":","/","/","w","w","w",".","p","a","y","p","a","l",".","c","o","m","/","s","i","g","n","i","n">>
page_other == <<"h","t","t","p",":","/","/","e","v","i","l",".","e","x","a","m","p","l","e",".","n","e","t","/">>

img_bank == [alt |-> <<"B","a","n","k"," ","o","f"," ","A","m","e","r","i","c","a">>, src |-> <<"h","t","t","p","s",":","/","/","c","d","n",".","e","x","a","m","p","l","e",".","n","e","t","/","l","o","g","o",".","p","n","g">>]
img_wells == [alt |-> <<"W","e","l","l","s"," ","F","a","r","g","o"," ","l","o","g","o">>, src |-> << >>]
img_paypal == [alt |-> << >>, src |-> <<"h","t","t","p","s",":","/","/","c","d","n",".","e","x","a","m","p","l","e",".","n","e","t","/","P","a","y","P","a","l",".","p","n","g">>]
img_photo == [alt |-> <<"p","h","o","t","o">>, src |-> <<"h","t","t","p","s",":","/","/","c","d","n",".","e","x","a","m","p","l","e",".","n","e","t","/","a",".","p","n","g">>]

Images == {img_bank, img_wells, img_paypal, img_photo}

ImageLists == UNION {[1..n -> Images] : n \in 0..MaxImages}

text_urgent == <<"U","R","G","E","N","T",":"," ","v","e","r","i","f","y"," ","y","o","u","r"," ","a","c","c","o","u","n","t">>
text_plain == <<"W","e","l","c","o","m","e"," ","b","a","c","k">>

form_login ==
  [action |-> <<"h","t","t","p","s",":","/","/","c","o","l","l","e","c","t",".","e","x","a","m","p","l","e",".","o","r","g","/","p","o","s","t">>,
   inputs |-> << [type |-> <<"t","e","x","t">>, name |-> <<"u","s","e","r">>, id |-> << >>],
                 [type |-> <<"P","A","S","S","W","O","R","D">>, name |-> << >>, id |-> <<"p","w","d">>] >>]
form_broken == [action |-> h_bad, inputs |-> << >>]

FormLists == {<< >>, <<form_login>>, <<form_broken, form_login>>}

Pages ==
  {[href |-> href, text |-> text, images |-> images, forms |-> forms] :
     href \in {page_bank, page_wells, page_paypal, page_other},
     text \in {text_urgent, text_plain},
     images \in ImageLists,
     forms \in FormLists}

(***************************************************************************)
(* The background script as a state machine.                               *)
(***************************************************************************)
VARIABLES
  now,        \* Date.now(), in seconds
  history,    \* the browser's history store
  lastIndex,  \* the lastIndex property of each SUSPICIOUS_PATTERNS object
  calls,      \* the analyzeUrlWithHistory invocations suspended at the await
  returned,   \* the last value a handler got back from the analysis
  tab,        \* the page of the tab and the state of its content script
  storage     \* chrome.storage.local

vars == <<now, history, lastIndex, calls, returned, tab, storage>>

Nothing == [kind |-> "none"]

\* no tab is open
NoTab == [open |-> FALSE]

\* chrome.storage.local as onInstalled leaves it; analyses holds the entries
\* the navigation handler writes, by URL
InstalledStorage ==
  [settings      |-> [notificationsEnabled |-> TRUE, autoBlockHigh |-> FALSE,
                      collectAnonymousStats |-> FALSE],
   detectedSites |-> << >>,
   analyses      |-> << >>]

Init ==
  /\ now = StartTime
  /\ history \in Histories
  /\ lastIndex = FreshLastIndex
  /\ calls = EmptyBag
  /\ returned = Nothing
  /\ tab = NoTab
  /\ storage = InstalledStorage

\* time passes
Tick ==
  /\ now < StartTime + MaxTicks * Day
  /\ now' = now + Day
  /\ UNCHANGED <<history, lastIndex, calls, returned, tab, storage>>

\* the issues array shared by all calls: it still holds what the invocation
\* that returned last has pushed
Analysis_shared(r) ==
  [score |-> r.score,
   issues |-> (IF returned.kind = "assessment" THEN returned.result.issues ELSE << >>) \o r.issues,
   riskLevel |-> r.riskLevel]

\* what analyzeUrl returned, without the pattern objects' state
Analysis(r) == [score |-> r.score, issues |-> r.issues, riskLevel |-> r.riskLevel]

\* what the handler gets from analyzeUrlWithHistory(url), with the inputs it was
\* computed from: the assessment, or the rejection if checkBrowserHistory rejected
Returned(url, baseAnalysis, outcome, lookup) ==
  IF outcome.threw
  THEN [kind |-> "rejection", url |-> url, lookup |-> lookup]
  ELSE [kind         |-> "assessment",
        url          |-> url,
        baseAnalysis |-> baseAnalysis,
        lookup       |-> lookup,
        at           |-> now,
        result       |-> Assessment(baseAnalysis, outcome.value)]

\* injectWarningBanner(analysis) in the content script of page t
injectWarningBanner(t, analysis) ==
  IF t.warningDisplayed THEN t
  ELSE IF analysis.riskLevel # "MEDIUM" /\ analysis.riskLevel # "HIGH" THEN t
  ELSE [t EXCEPT !.banner = analysis.riskLevel, !.warningDisplayed = TRUE]

\* the content script's listener for the analysisResult message
OnAnalysisResult(t, analysis) ==
  IF analysis.riskLevel = "MEDIUM" \/ analysis.riskLevel = "HIGH"
  THEN injectWarningBanner(t, analysis)
  ELSE t

\* chrome.tabs.sendMessage in the navigation handler: without a listener in
\* the tab the promise rejects, and the handler catches and logs the error
SendToTab(t, analysis) == IF t.listening THEN OnAnalysisResult(t, analysis) ELSE t

\* chrome.storage.local.set({[url]: {analysis, timestamp}})
Stored(url, analysis) ==
  [storage EXCEPT !.analyses =
     (url :> [analysis |-> analysis, timestamp |-> now]) @@ storage.analyses]

\* the handler continues with what analyzeUrlWithHistory gave it: the message
\* listener responds to the popup; the navigation listener stores the analysis
\* and sends it to the tab.  t is the tab as the handler finds it.
Continue(origin, result, t) ==
  /\ returned' = result
  /\ IF origin = "navigation" /\ result.kind = "assessment"
     THEN /\ storage' = Stored(result.url, result.result)
          /\ tab' = SendToTab(t, result.result)
     ELSE /\ tab' = t
          /\ UNCHANGED storage

\* a handler calls analyzeUrlWithHistory(url), which runs up to the await of the
\* history search; at most limit invocations are suspended there.  A URL that
\* new URL() rejects throws in checkBrowserHistory before any search.
StartAnalysis(url, origin, limit, t) ==
  LET r == analyzeUrl(url, lastIndex)
      parsed == ParseURL(url)
  IN /\ lastIndex' = r.regs
     /\ IF parsed.ok
        THEN /\ BagCardinality(calls) < limit
             /\ calls' = calls (+) SetToBag({[url |-> url,
                                              origin |-> origin,
                                              baseAnalysis |-> Analysis(r),
                                              domain |-> parsed.hostname,
                                              query |-> HistoryQuery(parsed.hostname, now)]})
             /\ tab' = t
             /\ UNCHANGED <<returned, storage>>
        ELSE /\ Continue(origin,
                         Returned(url, Analysis(r), CatchLookup(Thrown), [outcome |-> "unparseable"]),
                         t)
             /\ UNCHANGED calls
     /\ UNCHANGED <<now, history>>

\* the analyzeCurrentUrl message of the popup
AnalyzeRequest(url) == StartAnalysis(url, "popup", MaxCalls, tab)

\* chrome.history.search resolves: the rest of checkBrowserHistory and of
\* analyzeUrlWithHistory run, then the rest of the handler
HistoryResolved(call, byTitle) ==
  LET historyItems == SearchHistory(history, call.query, byTitle)
  IN /\ BagIn(call, calls)
     /\ calls' = calls (-) SetToBag({call})
     /\ Continue(call.origin,
                 Returned(call.url, call.baseAnalysis,
                          CatchLookup(Value(FamiliarityOf(call.domain, historyItems, now))),
                          [outcome |-> "resolved", domain |-> call.domain,
                           query |-> call.query, historyItems |-> historyItems,
                           exactDomainMatches |->
                             SelectSeq(historyItems, LAMBDA item : IsDomainMatch(item, call.domain))]),
                 tab)
     /\ UNCHANGED <<now, history, lastIndex>>

\* chrome.history.search rejects: the catch block of checkBrowserHistory
HistoryRejected(call) ==
  /\ BagIn(call, calls)
  /\ calls' = calls (-) SetToBag({call})
  /\ Continue(call.origin,
              Returned(call.url, call.baseAnalysis, CatchLookup(Thrown), [outcome |-> "rejected"]),
              tab)
  /\ UNCHANGED <<now, history, lastIndex>>

\* the detailedCheck message: analyzeUrl alone
DetailedCheck(url) ==
  LET r == analyzeUrl(url, lastIndex)
  IN /\ lastIndex' = r.regs
     /\ returned' = [kind |-> "detailed", url |-> url, baseAnalysis |-> Analysis(r)]
     /\ UNCHANGED <<now, history, calls, tab, storage>>

Next ==
  \/ Tick
  \/ \E url \in Urls : AnalyzeRequest(url)
  \/ \E call \in BagToSet(calls), byTitle \in BOOLEAN : HistoryResolved(call, byTitle)
  \/ \E call \in BagToSet(calls) : HistoryRejected(call)
  \/ \E url \in Urls : DetailedCheck(url)

Spec == Init /\ [][Next]_vars

(***************************************************************************)
(* One tab with its page: the navigation listener, the content script and  *)
(* the popup, with several analyses in flight.                             *)
(***************************************************************************)
\* the largest number of analyzeUrlWithHistory invocations suspended at once
MaxInvocations == 2

u_verify == <<"h","t","t","p",":","/","/","s","e","c","u","r","e","-","a","c","c","o","u","n","t","-","v","e","r","i","f","y",".","t","k","/">>
u_internal == <<"c","h","r","o","m","e",":","/","/","e","x","t","e","n","s","i","o","n","s","/">>

\* the pages the tab shows
TabPages ==
  {[href |-> u_verify, text |-> text_urgent, images |-> <<img_paypal>>, forms |-> <<form_login>>],
   [href |-> u_example, text |-> text_plain, images |-> << >>, forms |-> << >>],
   [href |-> u_internal, text |-> text_plain, images |-> << >>, forms |-> << >>]}

\* url.startsWith('chrome://') || url.startsWith('chrome-extension://')
IsInternal(url) ==
  startsWith(url, <<"c","h","r","o","m","e",":","/","/">>) \/ startsWith(url, <<"c","h","r","o","m","e","-","e","x","t","e","n","s","i","o","n",":","/","/">>)

\* a tab that has started to load page: the load has not completed, the content
\* script has not run
OpenTab(page) ==
  [open |-> TRUE, page |-> page, completed |-> FALSE, listening |-> FALSE,
   report |-> "none", warningDisplayed |-> FALSE, banner |-> "none"]

InitPage ==
  /\ now = StartTime
  /\ history = HistoryMixed
  /\ lastIndex = FreshLastIndex
  /\ calls = EmptyBag
  /\ returned = Nothing
  /\ tab \in {OpenTab(page) : page \in TabPages}
  /\ storage = InstalledStorage

\* webNavigation.onCompleted for a frame of the tab: the main frame (0) completes
\* once for the page, a subframe at any time
NavigationCompleted(frameId) ==
  IF frameId # 0 THEN UNCHANGED vars
  ELSE /\ ~tab.completed
       /\ IF IsInternal(tab.page.href)
          THEN /\ tab' = [tab EXCEPT !.completed = TRUE]
               /\ UNCHANGED <<now, history, lastIndex, calls, returned, storage>>
          ELSE StartAnalysis(tab.page.href, "navigation", MaxInvocations,
                             [tab EXCEPT !.completed = TRUE])

\* the content script is injected and runs: it registers its message listener
\* and calls analyzePage; internal pages get no content script
ContentScriptLoaded ==
  /\ ~IsInternal(tab.page.href)
  /\ ~tab.listening
  /\ tab' = [tab EXCEPT !.listening = TRUE]
  /\ UNCHANGED <<now, history, lastIndex, calls, returned, storage>>

\* runAnalysis, at once or on the load event: the forms and the content are
\* analysed and the contentAnalysis message is sent to the background script
PageAnalysed ==
  /\ tab.listening
  /\ tab.report = "none"
  /\ tab' = [tab EXCEPT !.report = "sent"]
  /\ UNCHANGED <<now, history, lastIndex, calls, returned, storage>>

\* the listener counting the issues the content script reports into the stored score
ContentAnalysisReceived_merged ==
  LET message == ContentAnalysisMessage(tab.page)
      points == 10 * (Len(message.data.form.issues) + Len(message.data.content.issues))
  IN /\ tab.report = "sent"
     /\ tab' = [tab EXCEPT !.report = "received"]
     /\ storage' = [storage EXCEPT !.analyses =
                      [u \in DOMAIN storage.analyses |->
                         IF u = message.url
                         THEN [storage.analyses[u] EXCEPT !.analysis.score = @ + points]
                         ELSE storage.analyses[u]]]
     /\ UNCHANGED <<now, history, lastIndex, calls, returned>>

\* the background script gets the contentAnalysis message: no branch of its
\* listener handles that action
ContentAnalysisReceived ==
  /\ tab.report = "sent"
  /\ tab' = [tab EXCEPT !.report = "received"]
  /\ UNCHANGED <<now, history, lastIndex, calls, returned, storage>>

\* the popup is opened on the tab and asks for the analysis of its URL
PopupRequested ==
  /\ ~IsInternal(tab.page.href)
  /\ StartAnalysis(tab.page.href, "popup", MaxInvocations, tab)

\* the close button of the banner
BannerClosed ==
  /\ tab.banner \in {"MEDIUM", "HIGH"}
  /\ tab' = [tab EXCEPT !.banner = "closed"]
  /\ UNCHANGED <<now, history, lastIndex, calls, returned, storage>>

NextPage ==
  \/ Tick
  \/ \E frameId \in {0, 1} : NavigationCompleted(frameId)
  \/ ContentScriptLoaded
  \/ PageAnalysed
  \/ ContentAnalysisReceived
  \/ PopupRequested
  \/ \E call \in BagToSet(calls), byTitle \in BOOLEAN : HistoryResolved(call, byTitle)
  \/ \E call \in BagToSet(calls) : HistoryRejected(call)
  \/ BannerClosed

SpecPage == InitPage /\ [][NextPage]_vars


(***************************************************************************)
(* The two copies of the score-to-level mapping, applied to pairs of       *)
(* scores.                                                                 *)
(***************************************************************************)
\* the largest score of a pair
MaxScore == 120

InitLevels ==
  /\ now = StartTime
  /\ history = HistoryMixed
  /\ lastIndex = FreshLastIndex
  /\ calls = EmptyBag
  /\ tab = NoTab
  /\ storage = InstalledStorage
  /\ \E low \in 0..MaxScore : \E high \in low..MaxScore :
       returned = [kind |-> "scores", low |-> low, high |-> high]

\* both scores mapped by the copy in analyzeUrl and by the copy in analyzeUrlWithHistory
MapLevels ==
  /\ returned.kind = "scores"
  /\ returned' = [kind |-> "levels", low |-> returned.low, high |-> returned.high,
                  lowLevel      |-> RiskLevelOf(returned.low),
                  highLevel     |-> RiskLevelOf(returned.high),
                  lowAdjusted   |-> AdjustedRiskLevel(returned.low),
                  highAdjusted  |-> AdjustedRiskLevel(returned.high)]
  /\ UNCHANGED <<now, history, lastIndex, calls, tab, storage>>

SpecLevels == InitLevels /\ [][MapLevels]_vars

(***************************************************************************)
(* analyzeUrl applied to pairs of URLs: URLs that differ in one check of   *)
(* analyzeUrl, one URL for each check.                                     *)
(***************************************************************************)
c_tld == <<"h","t","t","p","s",":","/","/","e","x","a","m","p","l","e",".","x","y","z","/">>
c_encoded == <<"h","t","t","p","s",":","/","/","e","x","a","m","p","l","e",".","c","o","m","/","%","4","1">>
c_loginPath == <<"h","t","t","p","s",":","/","/","e","x","a","m","p","l","e",".","c","o","m","/","l","o","g","i","n">>
c_loginHost == <<"h","t","t","p","s",":","/","/","l","o","g","i","n",".","e","x","a","m","p","l","e",".","c","o","m","/">>
c_loginBoth == <<"h","t","t","p","s",":","/","/","l","o","g","i","n",".","e","x","a","m","p","l","e",".","c","o","m","/","l","o","g","i","n">>
c_paypalEncoded == <<"h","t","t","p",":","/","/","p","a","y","p","a","l","-","s","e","c","u","r","e","-","l","o","g","i","n",".","x","y","z","/","%","4","1">>
c_long == <<"h","t","t","p","s",":","/","/","a","a","a","a","a","a","a","a","a","a","a","a","a","a","a","a","a","a","a","a","a","a","a","a","a","a","a","a","a","a","a",".","c","o","m","/">>
c_subdomains == <<"h","t","t","p","s",":","/","/","a",".","b",".","c",".","d",".","e","x","a","m","p","l","e",".","c","o","m","/">>
c_hyphens == <<"h","t","t","p","s",":","/","/","e","x","-","a","m","-","p","l","e",".","c","o","m","/">>
c_digits == <<"h","t","t","p","s",":","/","/","e","x","a","m","p","l","e",".","c","o","m","/","1","2","3","4","5">>
c_wallet == <<"h","t","t","p","s",":","/","/","w","a","l","l","e","t",".","e","x","a","m","p","l","e",".","c","o","m","/">>
c_alnum == <<"h","t","t","p",":","/","/","a","a","a","a","a","a","a","a","a","a","a","a","a","a","a","a","a","a","a","a","a","a","a","a","a","/">>

UrlCorpus ==
  {u_example, u_ip, u_paypal, u_high, c_tld, c_encoded, c_loginPath, c_loginHost,
   c_loginBoth, c_paypalEncoded, c_long, c_subdomains, c_hyphens, c_digits,
   c_wallet, c_alnum}

InitUrls ==
  /\ now = StartTime
  /\ history = HistoryMixed
  /\ lastIndex = FreshLastIndex
  /\ calls = EmptyBag
  /\ tab = NoTab
  /\ storage = InstalledStorage
  /\ \E first \in UrlCorpus : \E second \in UrlCorpus :
       returned = [kind |-> "urls", first |-> first, second |-> second]

\* the two results and the state the pattern objects are left in
BothScored(first, second, a, b) ==
  /\ returned' = [kind |-> "analyses", first |-> first, second |-> second,
                  firstAnalysis |-> Analysis(a), secondAnalysis |-> Analysis(b)]
  /\ lastIndex' = b.regs

\* analyzeUrl(second) after analyzeUrl(first) returned a
ThenSecond(first, second, a) == BothScored(first, second, a, analyzeUrl(second, a.regs))

\* analyzeUrl(first), then analyzeUrl(second)
ScoreUrls ==
  /\ returned.kind = "urls"
  /\ ThenSecond(returned.first, returned.second, analyzeUrl(returned.first, lastIndex))
  /\ UNCHANGED <<now, history, calls, tab, storage>>

SpecUrls == InitUrls /\ [][ScoreUrls]_vars

(***************************************************************************)
(* The content script run on a page.                                       *)
(***************************************************************************)
InitContent ==
  /\ now = StartTime
  /\ history = HistoryMixed
  /\ lastIndex = FreshLastIndex
  /\ calls = EmptyBag
  /\ tab = NoTab
  /\ storage = InstalledStorage
  /\ \E page \in Pages : returned = [kind |-> "page", page |-> page]

\* runAnalysis on the loaded page
RunAnalysis ==
  /\ returned.kind = "page"
  /\ returned' = [kind |-> "contentAnalysis", page |-> returned.page,
                  brandLogosFound |-> BrandLogosFound(returned.page.images),
                  message |-> ContentAnalysisMessage(returned.page)]
  /\ UNCHANGED <<now, history, lastIndex, calls, tab, storage>>

SpecContent == InitContent /\ [][RunAnalysis]_vars

(***************************************************************************)
(* Properties.                                                             *)
(***************************************************************************)
IsAssessment == returned.kind = "assessment"

HasAnalysis == returned.kind \in {"assessment", "detailed"}

Resolved == IsAssessment /\ returned.lookup.outcome = "resolved"

\* the threshold table as the specification words it
LevelByTable(s) ==
  CASE s >= 80 -> "HIGH"
    [] s >= 60 /\ s < 80 -> "MEDIUM"
    [] s >= 30 /\ s < 60 -> "LOW"
    [] s < 30 -> "SAFE"

LevelRank == [SAFE |-> 0, LOW |-> 1, MEDIUM |-> 2, HIGH |-> 3]

\* C1: analyzeUrl returns a result for every input, and for an input that fails
\* URL parsing the result has score exactly 20 and the single issue "Malformed URL".
C1_MalformedUrl ==
  HasAnalysis /\ ~ParseURL(returned.url).ok =>
    /\ returned.baseAnalysis.score = 20
    /\ returned.baseAnalysis.issues = << <<"Malformed URL">> >>

C1_Witness ==
  /\ returned.kind = "detailed"
  /\ returned.url = u_badip
  /\ returned.baseAnalysis.score = 20

\* C2: for every score exactly the level of the threshold table is selected
\* (>= 80 HIGH, >= 60 MEDIUM, >= 30 LOW, else SAFE), the level does not decrease
\* when the score grows, and the copy in analyzeUrl and the copy in
\* analyzeUrlWithHistory select the same level.
C2_LevelMapping ==
  returned.kind = "levels" =>
    /\ returned.lowLevel = LevelByTable(returned.low)
    /\ returned.highLevel = LevelByTable(returned.high)
    /\ LevelRank[returned.lowLevel] <= LevelRank[returned.highLevel]
    /\ LevelRank[returned.lowAdjusted] <= LevelRank[returned.highAdjusted]
    /\ returned.lowAdjusted = returned.lowLevel
    /\ returned.highAdjusted = returned.highLevel

C2_Witness ==
  /\ returned.kind = "levels"
  /\ returned.low = 79 /\ returned.lowLevel = "MEDIUM"
  /\ returned.high = 80 /\ returned.highAdjusted = "HIGH"

\* C3: the riskLevel of a returned assessment is the threshold mapping of the
\* returned (adjusted) score, also where the level of the base score differs.
C3_LevelOfAdjustedScore ==
  IsAssessment => returned.result.riskLevel = LevelByTable(returned.result.score)

C3_Witness ==
  /\ IsAssessment
  /\ ~returned.result.familiarity.firstVisit
  /\ returned.result.riskLevel # returned.baseAnalysis.riskLevel

\* C4: on a first visit the final score is the base score plus exactly 90 and
\* the issues are the base issues followed by "First visit to this domain".
C4_FirstVisit ==
  IsAssessment /\ returned.result.familiarity.firstVisit =>
    /\ returned.result.score = returned.baseAnalysis.score + 90
    /\ returned.result.issues =
         returned.baseAnalysis.issues \o << <<"First visit to this domain">> >>

C4_Witness ==
  /\ Resolved
  /\ returned.result.familiarity.firstVisit
  /\ returned.baseAnalysis.score = 50
  /\ returned.result.score = 140

\* C5: on a non-first visit the reduction floor(familiarityScore / 4) is in
\* [0,25], the final score is max(base - reduction, 0), between 0 and the base
\* score, and "Frequently visited site (n visits)" is appended exactly when
\* familiarityScore > 70.
C5_FamiliarVisit ==
  IsAssessment /\ ~returned.result.familiarity.firstVisit =>
    LET f == returned.result.familiarity
        reduction == f.familiarityScore \div 4
        base == returned.baseAnalysis
    IN /\ reduction \in 0..25
       /\ returned.result.score = SetMax({base.score - reduction, 0})
       /\ returned.result.score >= 0
       /\ returned.result.score <= base.score
       /\ returned.result.issues =
            IF f.familiarityScore > 70
            THEN Append(base.issues,
                   <<"Frequently visited site (", NumberToString(f.visitCount), " visits)">>)
            ELSE base.issues

C5_Witness ==
  /\ IsAssessment
  /\ ~returned.result.familiarity.firstVisit
  /\ returned.result.familiarity.familiarityScore > 70
  /\ returned.baseAnalysis.score - returned.result.familiarity.familiarityScore \div 4 < 0
  /\ returned.result.score = 0


\* the dot-separated labels of the host of a URL
HostLabels(url) == split(ParseURL(url).hostname, ".")

\* sequence a is a suffix of sequence b
IsSuffixOf(a, b) == Len(a) <= Len(b) /\ SubSeq(b, Len(b) - Len(a) + 1, Len(b)) = a

\* the host of the item and the domain are equal or one is a parent domain of the other
DotRelated(url, domain) ==
  /\ ParseURL(url).ok
  /\ \/ IsSuffixOf(HostLabels(url), split(domain, "."))
     \/ IsSuffixOf(split(domain, "."), HostLabels(url))

\* the items of the last lookup that are visits of the analysed domain
VisitsOfDomain ==
  {item \in {returned.lookup.historyItems[i] : i \in 1..Len(returned.lookup.historyItems)} :
     DotRelated(item.url, returned.lookup.domain)}

\* C6: when visits inside the queried window (90 days to 5 seconds before the
\* query) match, the familiarityScore of the snapshot is an integer in [0,100].
C6_FamiliarityBounds ==
  /\ Resolved
  /\ VisitsOfDomain # {}
  /\ \A v \in VisitsOfDomain :
       v.lastVisitTime \in returned.lookup.query.startTime..returned.lookup.query.endTime
  => returned.result.familiarity.familiarityScore \in 0..100

C6_Witness ==
  /\ Resolved
  /\ returned.result.familiarity.familiar
  /\ returned.result.familiarity.visitCount > 20
  /\ returned.result.familiarity.familiarityScore = 100

\* C7: with matching visits the snapshot is familiar, not a first visit,
\* visitCount is the uncapped number of matching visits, daysSinceLastVisit is
\* floor((now - most recent matching visit) / one day) and familiarityScore is
\* min(visitCount, 20) * 2 + max(60 - 2 * daysSinceLastVisit, 0); without a
\* matching visit it is the first-visit snapshot with zero counts.
C7_Snapshot ==
  Resolved =>
    IF VisitsOfDomain = {}
    THEN returned.result.familiarity =
           [familiar |-> FALSE, firstVisit |-> TRUE, visitCount |-> 0,
            daysSinceLastVisit |-> 0, familiarityScore |-> 0]
    ELSE LET n == Cardinality(VisitsOfDomain)
             d == (returned.at - SetMax({v.lastVisitTime : v \in VisitsOfDomain})) \div Day
         IN returned.result.familiarity =
              [familiar |-> TRUE, firstVisit |-> FALSE, visitCount |-> n,
               daysSinceLastVisit |-> d,
               familiarityScore |-> SetMin({n, 20}) * 2 + SetMax({60 - 2 * d, 0})]

C7_Witness ==
  /\ Resolved
  /\ returned.result.familiarity.visitCount > 20
  /\ returned.result.familiarity.daysSinceLastVisit > 0
  /\ returned.result.familiarity.familiarityScore = 98

\* C8: a failed lookup (the search rejecting, or the analysed URL not parsing)
\* never reaches analyzeUrlWithHistory as a rejection: it gives the snapshot
\* {familiar: false, firstVisit: true, visitCount: 0, error: true}; a history item
\* whose URL does not parse is skipped and the lookup still succeeds.
C8_LookupFailure ==
  /\ returned.kind # "rejection"
  /\ IsAssessment /\ returned.lookup.outcome \in {"rejected", "unparseable"} =>
       returned.result.familiarity =
         [familiar |-> FALSE, firstVisit |-> TRUE, visitCount |-> 0, error |-> TRUE]
  /\ Resolved =>
       /\ "error" \notin DOMAIN returned.result.familiarity
       /\ \A i \in 1..Len(returned.lookup.exactDomainMatches) :
            ParseURL(returned.lookup.exactDomainMatches[i].url).ok

C8_Witness ==
  /\ IsAssessment
  /\ returned.lookup.outcome = "rejected"
  /\ returned.result.familiarity.error

\* a lookup that met an unparseable item and still found visits
C8_SkippedItem ==
  /\ Resolved
  /\ \E i \in 1..Len(returned.lookup.historyItems) :
       ~ParseURL(returned.lookup.historyItems[i].url).ok
  /\ returned.result.familiarity.familiar

\* C9: the items counted as visits are exactly those whose host equals the
\* domain or is related to it across a dot (one ends with "." + the other); an
\* item whose host only contains the domain as a substring is not counted.
C9_DotDelimitedMatch ==
  Resolved =>
    /\ {returned.lookup.exactDomainMatches[i] : i \in 1..Len(returned.lookup.exactDomainMatches)}
         = VisitsOfDomain
    /\ returned.result.familiarity.visitCount = Cardinality(VisitsOfDomain)
    /\ \A v \in VisitsOfDomain :
         LET h == ParseURL(v.url).hostname
             d == returned.lookup.domain
         IN h = d \/ endsWith(h, <<".">> \o d) \/ endsWith(d, <<".">> \o h)

C9_Witness ==
  /\ Resolved
  /\ returned.url = u_example
  /\ \E i \in 1..Len(returned.lookup.historyItems) :
       returned.lookup.historyItems[i].url = h_notexample
  /\ \E i \in 1..Len(returned.lookup.historyItems) :
       returned.lookup.historyItems[i].url = h_phishing
  /\ returned.result.familiarity.visitCount = 3

\* the results analyzeUrl has returned that are still held
Observed ==
  {[url |-> call.url, baseAnalysis |-> call.baseAnalysis] : call \in BagToSet(calls)}
  \cup (IF HasAnalysis
        THEN {[url |-> returned.url, baseAnalysis |-> returned.baseAnalysis]}
        ELSE {})

\* C10: two calls of analyzeUrl with the same URL return the same score, issues
\* and level, whatever calls came between; the pattern objects carry no state
\* from one call to the next.
C10_Deterministic ==
  /\ \A a \in Observed : \A b \in Observed : a.url = b.url => a.baseAnalysis = b.baseAnalysis
  /\ lastIndex = FreshLastIndex

C10_Witness ==
  /\ returned.kind = "detailed"
  /\ returned.url = u_paypal
  /\ returned.baseAnalysis.score = 60
  /\ \E call \in BagToSet(calls) : call.url = u_paypal /\ call.baseAnalysis.score = 60

\* the pair of URLs has been scored
Analysed == returned.kind = "analyses"

\* the set of the elements of a sequence
Range(seq) == {seq[i] : i \in 1..Len(seq)}

\* C11: when the indicators triggered by one URL are those of another URL and
\* one more, the score of the first is not lower than the score of the second.
C11_Monotone ==
  Analysed =>
    \A extra \in Range(returned.firstAnalysis.issues) \ Range(returned.secondAnalysis.issues) :
      Range(returned.firstAnalysis.issues) = Range(returned.secondAnalysis.issues) \cup {extra}
        => returned.firstAnalysis.score >= returned.secondAnalysis.score

C11_Witness ==
  /\ Analysed
  /\ returned.first = c_paypalEncoded
  /\ returned.second = u_paypal
  /\ Range(returned.firstAnalysis.issues) =
       Range(returned.secondAnalysis.issues) \cup {<<"URL contains encoded characters">>}
  /\ returned.firstAnalysis.score = 70
  /\ returned.secondAnalysis.score = 60

\* the text of a literal pattern, a run of at least five digits, or a string
\* of at least 25 letters and digits and nothing else
PatternMatches(p, s) ==
  CASE p.kind = "literal" -> includes(s, p.text)
    [] p.kind = "digits" ->
         \E i \in 1..Len(s) : i + 4 <= Len(s) /\ \A k \in 0..4 : s[i + k] \in Digit
    [] p.kind = "alnumOnly" -> Len(s) >= 25 /\ \A i \in 1..Len(s) : s[i] \in AlphaNum

\* the rules that fire on a parseable URL, each with its weight
FiredRules(url) ==
  LET host == ParseURL(url).hostname
      path == ParseURL(url).pathname
      labels == split(host, ".")
  IN    {[rule |-> "ip", weight |-> 40] : x \in
           {1} \cap {IF Len(labels) = 4 /\ \A i \in 1..Len(labels) :
                          Len(labels[i]) \in 1..3 /\ \A k \in 1..Len(labels[i]) : labels[i][k] \in Digit
                     THEN 1 ELSE 0}}
   \cup {[rule |-> "tld", weight |-> 15] : x \in
           {i \in 1..Len(SUSPICIOUS_TLDS) : SUSPICIOUS_TLDS[i] = labels[Len(labels)]}}
   \cup {[rule |-> "length", weight |-> 15] : x \in {1} \cap {IF Len(host) > 30 THEN 1 ELSE 0}}
   \cup {[rule |-> "subdomains", weight |-> 15] : x \in {1} \cap {IF Len(labels) > 5 THEN 1 ELSE 0}}
   \cup {[rule |-> "hyphens", weight |-> 10] : x \in
           {1} \cap {IF \E i \in 1..Len(host) : \E j \in 1..Len(host) :
                          i < j /\ host[i] = "-" /\ host[j] = "-" THEN 1 ELSE 0}}
   \cup {[rule |-> "pattern", weight |-> 10, pattern |-> i] : i \in
           {i \in 1..Len(SUSPICIOUS_PATTERNS) :
              PatternMatches(SUSPICIOUS_PATTERNS[i], host) \/ PatternMatches(SUSPICIOUS_PATTERNS[i], path)}}
   \cup {[rule |-> "term", weight |-> 5, term |-> i] : i \in
           {i \in 1..Len(SECURITY_TERMS) : includes(host, SECURITY_TERMS[i])}}
   \cup {[rule |-> "encoded", weight |-> 10] : x \in
           {1} \cap {IF \E i \in 1..Len(url) : url[i] = "%" THEN 1 ELSE 0}}

\* the sum of the weights of a set of rules
RECURSIVE WeightSum(_)
WeightSum(rules) ==
  IF rules = {} THEN 0
  ELSE LET r == CHOOSE r \in rules : TRUE IN r.weight + WeightSum(rules \ {r})

\* C12: the score of a parseable URL is the sum, without a cap, of the weights
\* of the rules that fire (IP host 40, suspicious TLD 15, host longer than 30
\* 15, more than 3 subdomains 15, more than one hyphen 10, each matching pattern
\* 10, each contained security term 5, '%' in the URL 10) and there is exactly
\* one issue for each rule that fires: a pattern that matches the host and the
\* path counts once, and no rule keeps another from firing.
C12_SumOfWeights ==
  Analysed /\ ParseURL(returned.first).ok =>
    /\ returned.firstAnalysis.score = WeightSum(FiredRules(returned.first))
    /\ Len(returned.firstAnalysis.issues) = Cardinality(FiredRules(returned.first))
    /\ Cardinality(Range(returned.firstAnalysis.issues)) = Len(returned.firstAnalysis.issues)

C12_Witness ==
  /\ Analysed
  /\ returned.first = c_loginBoth
  /\ returned.firstAnalysis.score = 10
  /\ returned.firstAnalysis.issues = << <<"Suspicious pattern detected: ", "/login/">> >>
  /\ returned.second = u_high
  /\ returned.secondAnalysis.score = 80
  /\ Len(returned.secondAnalysis.issues) = 8

\* C13: (as claimed) for the host paypal-secure-login.xyz the suspicious TLD
\* (+15), the multiple hyphens (+10), the patterns "secure" and "login" (+10
\* each) and the security term "secure" (+5) are the indicators and account for
\* the whole score.
C13_Scenario5_AsClaimed ==
  Analysed /\ returned.first = u_paypal =>
    /\ returned.firstAnalysis.score = 15 + 10 + 10 + 10 + 5
    /\ Range(returned.firstAnalysis.issues) =
         {<<"Suspicious TLD: .", <<"x","y","z">> >>,
          <<"Multiple hyphens in domain">>,
          <<"Suspicious pattern detected: ", "/secure/">>,
          <<"Suspicious pattern detected: ", "/login/">>,
          <<"Security term in domain: ", <<"s","e","c","u","r","e">> >>}

\* C13: (amended) for the host paypal-secure-login.xyz the suspicious TLD (+15),
\* the multiple hyphens (+10), the patterns "secure", "login" and "paypal" (+10
\* each) and the security term "secure" (+5) are the indicators, each scored
\* once and without de-duplication of "secure", and account for the whole
\* score, 60.
C13_Scenario5 ==
  Analysed /\ returned.first = u_paypal =>
    /\ returned.firstAnalysis.score = 15 + 10 + 10 + 10 + 10 + 5
    /\ returned.firstAnalysis.issues =
         << <<"Suspicious TLD: .", <<"x","y","z">> >>,
            <<"Multiple hyphens in domain">>,
            <<"Suspicious pattern detected: ", "/secure/">>,
            <<"Suspicious pattern detected: ", "/login/">>,
            <<"Suspicious pattern detected: ", "/paypal/">>,
            <<"Security term in domain: ", <<"s","e","c","u","r","e">> >> >>

C13_Witness ==
  /\ Analysed
  /\ returned.first = u_paypal
  /\ returned.firstAnalysis.score = 60
  /\ Len(returned.firstAnalysis.issues) = 6

\* C14: (as claimed) for "not a url" the result has score 20 and the single
\* issue "Malformed URL", in the result of analyzeUrl and also in the assessment
\* analyzeUrlWithHistory returns for it.
C14_Scenario3_AsClaimed ==
  /\ HasAnalysis /\ returned.url = u_malformed =>
       /\ returned.baseAnalysis.score = 20
       /\ returned.baseAnalysis.issues = << <<"Malformed URL">> >>
  /\ IsAssessment /\ returned.url = u_malformed =>
       /\ returned.result.score = 20
       /\ returned.result.issues = << <<"Malformed URL">> >>

\* C14: (amended) for "not a url" analyzeUrl returns score 20 and the single
\* issue "Malformed URL"; the assessment analyzeUrlWithHistory returns for it
\* has the first-visit adjustment on top of that: the error-flagged snapshot,
\* score 110, level HIGH and the issues "Malformed URL", "First visit to this
\* domain".
C14_Scenario3 ==
  /\ HasAnalysis /\ returned.url = u_malformed =>
       /\ returned.baseAnalysis.score = 20
       /\ returned.baseAnalysis.issues = << <<"Malformed URL">> >>
  /\ IsAssessment /\ returned.url = u_malformed =>
       /\ returned.result.familiarity =
            [familiar |-> FALSE, firstVisit |-> TRUE, visitCount |-> 0, error |-> TRUE]
       /\ returned.result.score = 110
       /\ returned.result.riskLevel = "HIGH"
       /\ returned.result.issues =
            << <<"Malformed URL">>, <<"First visit to this domain">> >>

C14_Witness ==
  /\ IsAssessment
  /\ returned.url = u_malformed
  /\ returned.lookup.outcome = "unparseable"
  /\ returned.result.score = 110

C19_NoVisitFound ==
  /\ Resolved
  /\ VisitsOfDomain = {}
  /\ returned.result.familiarity.firstVisit
  /\ returned.result.riskLevel = "HIGH"

\* a string without its spaces
StripSpaces(s) == SelectSeq(s, LAMBDA c : c # " ")

\* C15: when a brand is found in the images, brandImpersonation is set and one
\* issue listing all found brands (duplicates kept, joined by ", ") is emitted
\* if and only if no found brand, with all its spaces stripped, is contained in
\* the page host; "bank of america" on a host containing "bankofamerica" is not
\* flagged.
C15_BrandImpersonation ==
  returned.kind = "contentAnalysis" /\ returned.brandLogosFound # << >> =>
    LET host == ParseURL(returned.page.href).hostname
        content == returned.message.data.content
        noneInHost == \A i \in 1..Len(returned.brandLogosFound) :
                        ~includes(host, StripSpaces(returned.brandLogosFound[i]))
        issue == <<"Potential impersonation of: ", Join(returned.brandLogosFound, <<",", " ">>)>>
    IN /\ content.brandImpersonation <=> noneInHost
       /\ Cardinality({i \in 1..Len(content.issues) : content.issues[i] = issue})
            = IF noneInHost THEN 1 ELSE 0

\* the score, level and issues analyzeUrlWithHistory gives for url and a
\* familiarity snapshot when nothing else runs
RunAlone(url, familiarity) ==
  LET base == analyzeUrl(url, FreshLastIndex)
      score == AdjustedScore(base.score, familiarity)
  IN [score     |-> score,
      riskLevel |-> LevelByTable(score),
      issues    |-> AdjustedIssues(base.issues, familiarity)]

\* the score, level and issues of an assessment
Decision(result) ==
  [score |-> result.score, riskLevel |-> result.riskLevel, issues |-> result.issues]

\* the analyses the navigation handler has stored
StoredUrls == DOMAIN storage.analyses

NavigationHandled ==
  /\ tab.completed
  /\ \A call \in BagToSet(calls) : call.origin # "navigation"

\* C17: once the main-frame navigation to a page whose level is MEDIUM or HIGH
\* has been handled and the content script of the page listens, the warning
\* banner has been displayed, also when the result was sent before the
\* listener was registered; a banner is displayed only for MEDIUM or HIGH.
C17_BannerShown ==
  /\ /\ NavigationHandled
     /\ tab.listening
     /\ tab.page.href \in StoredUrls
     /\ storage.analyses[tab.page.href].analysis.riskLevel \in {"MEDIUM", "HIGH"}
     => tab.warningDisplayed
  /\ tab.warningDisplayed =>
       /\ tab.page.href \in StoredUrls
       /\ storage.analyses[tab.page.href].analysis.riskLevel \in {"MEDIUM", "HIGH"}

\* the issues the aggregation pushes
IsFamiliarityIssue(issue) ==
  issue[1] \in {"First visit to this domain", "Frequently visited site ("}

FamiliarityIssues(issues) == {i \in 1..Len(issues) : IsFamiliarityIssue(issues[i])}

\* C18: invocations of analyzeUrlWithHistory that interleave at the history
\* lookup do not affect each other: a suspended invocation holds the base
\* analysis of its own URL, without an issue another invocation pushed; each
\* returned or stored assessment is the one its URL and its own lookup give
\* when run alone, with at most one familiarity issue; and a stored assessment
\* is not changed by the invocations that return after it.
C18_Isolated ==
  /\ \A call \in BagToSet(calls) :
       /\ call.baseAnalysis.score = analyzeUrl(call.url, FreshLastIndex).score
       /\ call.baseAnalysis.issues = analyzeUrl(call.url, FreshLastIndex).issues
       /\ FamiliarityIssues(call.baseAnalysis.issues) = {}
  /\ IsAssessment =>
       /\ Decision(returned.result) = RunAlone(returned.url, returned.result.familiarity)
       /\ Cardinality(FamiliarityIssues(returned.result.issues)) <= 1
       /\ returned.lookup.outcome = "resolved" =>
            returned.result.familiarity.visitCount = Cardinality(VisitsOfDomain)
  /\ \A u \in StoredUrls :
       /\ Decision(storage.analyses[u].analysis)
            = RunAlone(u, storage.analyses[u].analysis.familiarity)
       /\ Cardinality(FamiliarityIssues(storage.analyses[u].analysis.issues)) <= 1

\* an invocation that was suspended before the last assessment was returned
\* and still is
C18_Witness ==
  /\ IsAssessment
  /\ Cardinality(FamiliarityIssues(returned.result.issues)) = 1
  /\ \E call \in BagToSet(calls) :
       /\ call.url = returned.url
       /\ call.query.endTime + 5 < returned.at
  /\ returned.url \in StoredUrls

=============================================================================
